---- MODULE Spec2Model ----
(***************************************************************************)
(* Model of the assignment-monitor canister (src/src/index.ts).            *)
(*                                                                         *)
(* The canister keeps seven stable maps, one heap list (supervisorList)    *)
(* and the one-shot timers it has armed with ic.setTimer.  Every update    *)
(* call is one atomic action.  A call that throws traps: the replica       *)
(* discards every state change of that call, so a trapping call leaves the *)
(* canister state as it was.  A timer callback is an action of its own,    *)
(* enabled while its timer is pending.                                     *)
(*                                                                         *)
(* uuidv4() is modelled by a counter (fresh, never repeated ids); the      *)
(* TimerId returned by ic.setTimer likewise.                               *)
(***************************************************************************)
EXTENDS Integers, Sequences, FiniteSets

\* ------------------------------------------------------------- bounds
\* number of participants that register
MaxParticipants == 2
\* number of assignments that are uploaded
MaxAssignments == 2
\* longest supervisorList
MaxPool == 2
\* Math.random() is drawn from the grid {0/RandomSteps, ..., (RandomSteps-1)/RandomSteps}
RandomSteps == 2
\* stake amounts offered: minStakeAmount - 1 .. minStakeAmount + MaxStakeExtra
MaxStakeExtra == 0

\* ---------------------------------------------------- program constants
minStakeAmount == 1000

\* an id that uuidv4() never returns
UnknownId == 0
Amounts == (minStakeAmount - 1)..(minStakeAmount + MaxStakeExtra)
ParticipantInfos == {[name |-> "n", areaOfStudy |-> "s"]}
AssignmentInfos == {[topic |-> "t", dueDate |-> 1]}
Works == {"done", "draft"}

VARIABLES
    participantStakeBalance,  \* StableBTreeMap<text, nat>       id -> amount
    idToParticipantRecord,    \* StableBTreeMap<text, Participant>
    assignmentStorage,        \* StableBTreeMap<text, Assignment>
    progressStorage,          \* StableBTreeMap<text, StudentToSupervisorRecord>
    workUnderSupervison,      \* StableBTreeMap<text, text>      supervisor -> progress id
    uploadedWork,             \* StableBTreeMap<text, text>      assignment -> work
    timerIdStorage,           \* StableBTreeMap<text, TimerId>   assignment -> timer
    supervisorList,           \* Participant[]
    timers,                   \* pending ic timers: TimerId -> id of the captured student
    nextUuid,                 \* the next value uuidv4() returns
    nextTimerId,              \* the next TimerId ic.setTimer returns
    last,                     \* the last call and what it returned
    firedTimers,              \* history: TimerIds whose callback has run
    verifiedFirst,            \* history: records verified while their timer had not fired
    positiveClaims,           \* history: record -> successful claims of a positive amount (saturates at 2)
    stakeAtUpload,            \* history: record -> the student's balance when the record was created
    untouched,                \* history: records whose student's balance nothing has written since creation
    lastUploaded,             \* history: assignment -> the text of its latest successful uploadSolution
    unclaimedStake            \* history: participant -> accepted stakes minus amounts claimed (saturates at StakeCap)

vars == <<participantStakeBalance, idToParticipantRecord, assignmentStorage,
          progressStorage, workUnderSupervison, uploadedWork, timerIdStorage,
          supervisorList, timers, nextUuid, nextTimerId, last, firedTimers,
          verifiedFirst, positiveClaims, stakeAtUpload, untouched, lastUploaded,
          unclaimedStake>>

canister == <<participantStakeBalance, idToParticipantRecord, assignmentStorage,
              progressStorage, workUnderSupervison, uploadedWork, timerIdStorage,
              supervisorList, timers, nextUuid, nextTimerId>>

history == <<firedTimers, verifiedFirst, positiveClaims, stakeAtUpload, untouched,
             lastUploaded, unclaimedStake>>

\* ------------------------------------------------------ StableBTreeMap
EmptyMap == [k \in {} |-> 0]

\* map.insert(key, value)
Insert(map, key, value) ==
    [k \in (DOMAIN map) \cup {key} |-> IF k = key THEN value ELSE map[k]]

\* map.get(key): an Opt, {Some: value} or {None: null}
None == [tag |-> "None"]
Some(v) == [tag |-> "Some", Some |-> v]
Get(map, key) == IF key \in DOMAIN map THEN Some(map[key]) ELSE None

\* ------------------------------------------------------------- results
NoText == <<>>
NoCall == [op |-> "none", ok |-> TRUE, err |-> "", id |-> 0, id2 |-> 0,
           amount |-> None, text |-> NoText, index |-> 0, again |-> FALSE]

Returned(op, id, id2) == [NoCall EXCEPT !.op = op, !.id = id, !.id2 = id2]
\* an Err(...) result or a thrown Error; neither changes the canister
Failed(op, id, id2, err) ==
    [NoCall EXCEPT !.op = op, !.id = id, !.id2 = id2, !.ok = FALSE, !.err = err]

\* the call before this one was the same call and succeeded
Repeated(op, id, id2) ==
    last.op = op /\ last.ok /\ last.id = id /\ last.id2 = id2

Init ==
    /\ participantStakeBalance = EmptyMap
    /\ idToParticipantRecord = EmptyMap
    /\ assignmentStorage = EmptyMap
    /\ progressStorage = EmptyMap
    /\ workUnderSupervison = EmptyMap
    /\ uploadedWork = EmptyMap
    /\ timerIdStorage = EmptyMap
    /\ supervisorList = <<>>
    /\ timers = EmptyMap
    /\ nextUuid = 1
    /\ nextTimerId = 1
    /\ last = NoCall
    /\ firedTimers = {}
    /\ verifiedFirst = {}
    /\ positiveClaims = EmptyMap
    /\ stakeAtUpload = EmptyMap
    /\ untouched = {}
    /\ lastUploaded = EmptyMap
    /\ unclaimedStake = EmptyMap

\* ------------------------------------------------------- registration
NewParticipant(id, info, isSupervisor) ==
    [id |-> id, name |-> info.name, areaOfStudy |-> info.areaOfStudy,
     isSupervisor |-> isSupervisor, hasStaked |-> FALSE]

Registered == Cardinality(DOMAIN idToParticipantRecord)

createStudent(info) ==
    /\ Registered < MaxParticipants
    /\ idToParticipantRecord' =
           Insert(idToParticipantRecord, nextUuid, NewParticipant(nextUuid, info, FALSE))
    /\ nextUuid' = nextUuid + 1
    /\ last' = Returned("createStudent", nextUuid, 0)
    /\ UNCHANGED <<participantStakeBalance, assignmentStorage, progressStorage,
                   workUnderSupervison, uploadedWork, timerIdStorage,
                   supervisorList, timers, nextTimerId>>
    /\ UNCHANGED history

createSupervisor(info) ==
    /\ Registered < MaxParticipants
    /\ idToParticipantRecord' =
           Insert(idToParticipantRecord, nextUuid, NewParticipant(nextUuid, info, TRUE))
    /\ nextUuid' = nextUuid + 1
    /\ last' = Returned("createSupervisor", nextUuid, 0)
    /\ UNCHANGED <<participantStakeBalance, assignmentStorage, progressStorage,
                   workUnderSupervison, uploadedWork, timerIdStorage,
                   supervisorList, timers, nextTimerId>>
    /\ UNCHANGED history

\* the progress records whose studentId is the given participant
RecordsOf(student) ==
    {r \in DOMAIN progressStorage : progressStorage[r].studentId = student}

\* ------------------------------------------------------------- stake
\* mutant of StakeTooLow: only a negative amount is refused
StakeTooLowNegative(amountToStake) == amountToStake < 0

StakeTooLow(amountToStake) == amountToStake < minStakeAmount

\* mutant of StakedBalance: the amount is added to the balance held
StakedBalanceAdded(id, amountToStake) ==
    Insert(participantStakeBalance, id,
           (IF id \in DOMAIN participantStakeBalance
            THEN participantStakeBalance[id] ELSE 0) + amountToStake)

\* participantStakeBalance.insert(id, amountToStake)
StakedBalance(id, amountToStake) ==
    Insert(participantStakeBalance, id, amountToStake)

\* the largest stake a call offers
StakeCap == minStakeAmount + MaxStakeExtra
\* accepted stakes minus amounts claimed so far, counted up to StakeCap: the
\* count never exceeds the true difference, so it is >= 0 only if that is
Unclaimed(p) == IF p \in DOMAIN unclaimedStake THEN unclaimedStake[p] ELSE 0

stake(id, amountToStake) ==
    LET participantOpt == Get(idToParticipantRecord, id) IN
    IF participantOpt = None THEN
        /\ last' = Failed("stake", id, 0, "IdDoesNotExistError")
        /\ UNCHANGED canister
        /\ UNCHANGED history
    ELSE IF StakeTooLow(amountToStake) THEN
        /\ last' = [Failed("stake", id, 0, "StakedIsTooLow")
                        EXCEPT !.amount = Some(amountToStake)]
        /\ UNCHANGED canister
        /\ UNCHANGED history
    ELSE
        LET participant == participantOpt.Some
            updatedParticipant == [participant EXCEPT !.hasStaked = TRUE]
        IN
        /\ updatedParticipant.isSupervisor => Len(supervisorList) < MaxPool
        /\ participantStakeBalance' = StakedBalance(id, amountToStake)
        /\ idToParticipantRecord' =
               Insert(idToParticipantRecord, updatedParticipant.id, updatedParticipant)
        /\ supervisorList' = IF updatedParticipant.isSupervisor
                             THEN Append(supervisorList, updatedParticipant)
                             ELSE supervisorList
        /\ last' = [Returned("stake", id, 0) EXCEPT !.amount = Some(amountToStake)]
        /\ untouched' = untouched \ RecordsOf(id)
        /\ UNCHANGED <<assignmentStorage, progressStorage, workUnderSupervison,
                       uploadedWork, timerIdStorage, timers, nextUuid, nextTimerId>>
        /\ unclaimedStake' =
               Insert(unclaimedStake, id,
                      IF Unclaimed(id) + amountToStake > StakeCap
                      THEN StakeCap ELSE Unclaimed(id) + amountToStake)
        /\ UNCHANGED <<firedTimers, verifiedFirst, positiveClaims, stakeAtUpload,
                       lastUploaded>>

\* ---------------------------------------------------------- matching
\* Math.floor(Math.random() * (max - min) + 1) + min, in exact arithmetic,
\* with Math.random() = r / RandomSteps for an r in 0..RandomSteps-1
randomInt(max, min, r) == ((r * (max - min) + RandomSteps) \div RandomSteps) + min

\* the value JavaScript gives for an array element that does not exist
Undefined == [id |-> UnknownId, undefined |-> TRUE]

\* supervisorList[supervisorIndex], with the array's indices 0..length-1
ArrayGet(list, index) ==
    IF index >= 0 /\ index < Len(list) THEN list[index + 1] ELSE Undefined

\* mutant of ReadIdThrows: the read tolerates undefined (supervisor?.id)
ReadIdNeverThrows(supervisor) == FALSE

\* reading supervisor.id throws a TypeError when supervisor is undefined;
\* the try block catches it and throws "failed to ... execute the code"
ReadIdThrows(supervisor) == supervisor = Undefined

\* ------------------------------------------------------------- timers
\* mutant of clearTimer: the handle is not cancelled
clearTimerIgnored(pending, timerId) == pending

\* ic.clearTimer(timerId): a pending timer is dropped, any other id is ignored
clearTimer(pending, timerId) ==
    [t \in (DOMAIN pending) \ {timerId} |-> pending[t]]

\* -------------------------------------------------- uploadAssignment
\* mutant of NeedsToStake: the hasStaked check is missing
NeedsToStakeNever(student) == FALSE

\* !student.hasStaked
NeedsToStake(student) == ~student.hasStaked

\* mutant of Supervised: a supervisor's first record is kept
SupervisedKeepFirst(supervisorId, progressId) ==
    IF supervisorId \in DOMAIN workUnderSupervison
    THEN workUnderSupervison
    ELSE Insert(workUnderSupervison, supervisorId, progressId)

\* workUnderSupervison.insert(supervisor.id, studentToSupervisor.id)
Supervised(supervisorId, progressId) ==
    Insert(workUnderSupervison, supervisorId, progressId)

uploadAssignment(studentId, assignmentInfo, r) ==
    LET participantOpt == Get(idToParticipantRecord, studentId) IN
    IF participantOpt = None THEN
        /\ last' = Failed("uploadAssignment", studentId, 0, "IdDoesNotExistError")
        /\ UNCHANGED canister
        /\ UNCHANGED history
    ELSE IF NeedsToStake(participantOpt.Some) THEN
        /\ last' = Failed("uploadAssignment", studentId, 0, "NeedToStakeFirst")
        /\ UNCHANGED canister
        /\ UNCHANGED history
    ELSE
        LET student == participantOpt.Some
            assignment == [id |-> nextUuid, topic |-> assignmentInfo.topic,
                           dueDate |-> assignmentInfo.dueDate]
            supervisorIndex == randomInt(Len(supervisorList) - 1, 0, r)
            supervisor == ArrayGet(supervisorList, supervisorIndex)
        IN
        IF ReadIdThrows(supervisor) THEN
            /\ last' = [Failed("uploadAssignment", studentId, 0, "LinkFailed")
                            EXCEPT !.index = supervisorIndex]
            /\ UNCHANGED canister
            /\ UNCHANGED history
        ELSE
            LET studentToSupervisor ==
                    [id |-> nextUuid + 1, studentId |-> student.id,
                     supervisorId |-> supervisor.id, assignmentId |-> assignment.id,
                     isFinished |-> FALSE]
                calcPeriod == assignment.dueDate * 24 * 60 * 60
                dueDateId == nextTimerId
            IN
            /\ Cardinality(DOMAIN assignmentStorage) < MaxAssignments
            /\ progressStorage' =
                   Insert(progressStorage, studentToSupervisor.id, studentToSupervisor)
            /\ workUnderSupervison' = Supervised(supervisor.id, studentToSupervisor.id)
            /\ assignmentStorage' = Insert(assignmentStorage, assignment.id, assignment)
            /\ timers' = Insert(timers, dueDateId,
                                [student |-> student.id, period |-> calcPeriod])
            /\ timerIdStorage' = Insert(timerIdStorage, assignment.id, dueDateId)
            /\ nextUuid' = nextUuid + 2
            /\ nextTimerId' = nextTimerId + 1
            /\ last' = [Returned("uploadAssignment", studentId, studentToSupervisor.id)
                            EXCEPT !.index = supervisorIndex]
            /\ stakeAtUpload' =
                   Insert(stakeAtUpload, studentToSupervisor.id,
                          Get(participantStakeBalance, student.id))
            /\ positiveClaims' = Insert(positiveClaims, studentToSupervisor.id, 0)
            /\ untouched' = untouched \cup {studentToSupervisor.id}
            /\ UNCHANGED <<participantStakeBalance, idToParticipantRecord,
                           uploadedWork, supervisorList>>
            /\ UNCHANGED <<firedTimers, verifiedFirst, lastUploaded, unclaimedStake>>

\* ---------------------------------------------------- uploadSolution
uploadSolution(assignmentId, workDone) ==
    IF Get(assignmentStorage, assignmentId) = None THEN
        /\ last' = Failed("uploadSolution", assignmentId, 0, "NoAssignment")
        /\ UNCHANGED canister
        /\ UNCHANGED history
    ELSE
        /\ uploadedWork' = Insert(uploadedWork, assignmentId, workDone)
        /\ last' = Returned("uploadSolution", assignmentId, 0)
        /\ lastUploaded' = Insert(lastUploaded, assignmentId, workDone)
        /\ UNCHANGED <<participantStakeBalance, idToParticipantRecord,
                       assignmentStorage, progressStorage, workUnderSupervison,
                       timerIdStorage, supervisorList, timers, nextUuid, nextTimerId>>
        /\ UNCHANGED <<firedTimers, verifiedFirst, positiveClaims, stakeAtUpload,
                       untouched, unclaimedStake>>

\* --------------------------------------------------- viewTheWorkDone
\* mutant of WorkKey: the work is looked up under the record's own id
WorkKeyRecordId(workStructure) == workStructure.id

\* uploadedWork.get(workStructure.assignmentId)
WorkKey(workStructure) == workStructure.assignmentId

\* a query: it reads the tables and changes none
viewTheWorkDone(id) ==
    LET progressIdOpt == Get(workUnderSupervison, id) IN
    /\ UNCHANGED canister
    /\ UNCHANGED history
    /\ IF progressIdOpt = None THEN
           last' = Failed("viewTheWorkDone", id, 0, "NoStudentToMonitor")
       ELSE
           LET progressId == progressIdOpt.Some
               workStructureOpt == Get(progressStorage, progressId)
           IN
           IF workStructureOpt = None THEN
               last' = Failed("viewTheWorkDone", id, progressId, "NoProgressRecord")
           ELSE
               LET workStructure == workStructureOpt.Some
                   workDoneOpt == Get(uploadedWork, WorkKey(workStructure))
               IN
               IF workDoneOpt = None THEN
                   last' = Failed("viewTheWorkDone", id, progressId, "NoWorkDone")
               ELSE
                   last' = [Returned("viewTheWorkDone", id, progressId)
                                EXCEPT !.text = <<workDoneOpt.Some>>]

\* ---------------------------------------------------- verifyWorkDone
\* newWorkStructure is built with isFinished: true and read for its
\* assignmentId, but never inserted: progressStorage is left as it was
verifyWorkDone(id) ==
    LET progressIdOpt == Get(workUnderSupervison, id) IN
    IF progressIdOpt = None THEN
        /\ last' = Failed("verifyWorkDone", id, 0, "NoStudentToMonitor")
        /\ UNCHANGED canister
        /\ UNCHANGED history
    ELSE
        LET progressId == progressIdOpt.Some
            workStructureOpt == Get(progressStorage, progressId)
        IN
        IF workStructureOpt = None THEN
            /\ last' = Failed("verifyWorkDone", id, progressId, "NoProgressRecord")
            /\ UNCHANGED canister
            /\ UNCHANGED history
        ELSE
            LET workStructure == workStructureOpt.Some
                newWorkStructure == [workStructure EXCEPT !.isFinished = TRUE]
                assignmentId == newWorkStructure.assignmentId
                timerIdOpt == Get(timerIdStorage, assignmentId)
            IN
            IF timerIdOpt = None THEN
                /\ last' = Failed("verifyWorkDone", id, progressId, "NoTimerId")
                /\ UNCHANGED canister
                /\ UNCHANGED history
            ELSE
                LET timerId == timerIdOpt.Some IN
                /\ timers' = clearTimer(timers, timerId)
                /\ last' = [Returned("verifyWorkDone", id, progressId)
                                EXCEPT !.again = Repeated("verifyWorkDone", id, progressId)]
                /\ verifiedFirst' = IF timerId \in firedTimers
                                    THEN verifiedFirst
                                    ELSE verifiedFirst \cup {progressId}
                /\ UNCHANGED <<participantStakeBalance, idToParticipantRecord,
                               assignmentStorage, progressStorage,
                               workUnderSupervison, uploadedWork,
                               timerIdStorage, supervisorList, nextUuid, nextTimerId>>
                /\ UNCHANGED <<firedTimers, positiveClaims, stakeAtUpload, untouched,
                               lastUploaded, unclaimedStake>>

\* -------------------------------------------------------- claimFunds
Digit(d) == <<"0", "1", "2", "3", "4", "5", "6", "7", "8", "9">>[d + 1]

\* bigint.toString(): the decimal digits
RECURSIVE NatToString(_)
NatToString(n) ==
    IF n < 10 THEN <<Digit(n)>> ELSE NatToString(n \div 10) \o <<Digit(n % 10)>>

\* Object.prototype.toString(), which an Opt, a plain object, inherits
ObjectToString(o) == <<"[object Object]">>

\* `Successfully withdrew ${amount.toString()} tokens`, where amount is
\* what participantStakeBalance.get returned: the Opt, not the nat in it
WithdrewText(amount) ==
    <<"Successfully withdrew ">> \o ObjectToString(amount) \o <<" tokens">>

\* mutant of ClaimRefused: === in place of !==
ClaimRefusedSameStudent(studentId, progressCheck) ==
    studentId = progressCheck.studentId /\ ~progressCheck.isFinished

\* studentId !== progressCheck.studentId && !progressCheck.isFinished
ClaimRefused(studentId, progressCheck) ==
    studentId # progressCheck.studentId /\ ~progressCheck.isFinished

\* mutant of ZeroedBalance: the balance is left as it was
ZeroedBalanceSkipped(student) == participantStakeBalance

\* participantStakeBalance.insert(progressCheck.studentId, 0n)
ZeroedBalance(student) == Insert(participantStakeBalance, student, 0)

\* the nat an Opt of the balance map holds (nothing withdrawn without an entry)
Payload(opt) == IF opt = None THEN 0 ELSE opt.Some

claimFunds(studentId, specialId) ==
    LET progressCheckOpt == Get(progressStorage, specialId) IN
    IF progressCheckOpt = None THEN
        /\ last' = Failed("claimFunds", studentId, specialId, "NoProgressRecord")
        /\ UNCHANGED canister
        /\ UNCHANGED history
    ELSE
        LET progressCheck == progressCheckOpt.Some IN
        IF ClaimRefused(studentId, progressCheck) THEN
            /\ last' = Failed("claimFunds", studentId, specialId, "NotSupposedToClaim")
            /\ UNCHANGED canister
            /\ UNCHANGED history
        ELSE
            LET amount == Get(participantStakeBalance, progressCheck.studentId)
                participant == idToParticipantRecord[progressCheck.studentId]
                updatedParticipant == [participant EXCEPT !.hasStaked = FALSE]
            IN
            /\ participantStakeBalance' = ZeroedBalance(progressCheck.studentId)
            /\ idToParticipantRecord' =
                   Insert(idToParticipantRecord, updatedParticipant.id, updatedParticipant)
            /\ last' = [Returned("claimFunds", studentId, specialId)
                            EXCEPT !.amount = amount, !.text = WithdrewText(amount)]
            /\ positiveClaims' =
                   IF Payload(amount) > 0 /\ positiveClaims[specialId] < 2
                   THEN [positiveClaims EXCEPT ![specialId] = @ + 1]
                   ELSE positiveClaims
            /\ untouched' = untouched \ RecordsOf(progressCheck.studentId)
            /\ UNCHANGED <<assignmentStorage, progressStorage, workUnderSupervison,
                           uploadedWork, timerIdStorage, supervisorList, timers,
                           nextUuid, nextTimerId>>
            /\ unclaimedStake' =
                   Insert(unclaimedStake, progressCheck.studentId,
                          Unclaimed(progressCheck.studentId) - Payload(amount))
            /\ UNCHANGED <<firedTimers, verifiedFirst, stakeAtUpload, lastUploaded>>

\* ------------------------------------------------ the due-date timer
\* mutant of ForfeitedBalance: the minimum stake is deducted from the balance
ForfeitedBalanceDeducted(student) ==
    Insert(participantStakeBalance, student,
           (IF student \in DOMAIN participantStakeBalance
            THEN participantStakeBalance[student] ELSE 0) - minStakeAmount)

\* participantStakeBalance.insert(student.id, 0n)
ForfeitedBalance(student) == Insert(participantStakeBalance, student, 0)

\* the callback setDueDate hands to ic.setTimer; a one-shot timer is
\* pending until it fires or is cleared
dueDateCallback(timerId) ==
    /\ timerId \in DOMAIN timers
    /\ participantStakeBalance' = ForfeitedBalance(timers[timerId].student)
    /\ timers' = [t \in (DOMAIN timers) \ {timerId} |-> timers[t]]
    /\ last' = Returned("dueDateCallback", timerId, timers[timerId].student)
    /\ firedTimers' = firedTimers \cup {timerId}
    /\ untouched' = untouched \ RecordsOf(timers[timerId].student)
    /\ UNCHANGED <<idToParticipantRecord, assignmentStorage, progressStorage,
                   workUnderSupervison, uploadedWork, timerIdStorage,
                   supervisorList, nextUuid, nextTimerId>>
    /\ UNCHANGED <<verifiedFirst, positiveClaims, stakeAtUpload, lastUploaded,
                   unclaimedStake>>

\* The ids a caller passes.  A handler only looks its argument up in one
\* map, so every id that is not a key of that map behaves as UnknownId does.
\* verifyWorkDone and viewTheWorkDone take an unknown id down the path a
\* registered participant without a supervised record takes, and claimFunds
\* only compares its studentId, so these draw from the registered ids.
ParticipantIds == (DOMAIN idToParticipantRecord) \cup {UnknownId}
AssignmentIds == (DOMAIN assignmentStorage) \cup {UnknownId}
ProgressIds == (DOMAIN progressStorage) \cup {UnknownId}

Next ==
    \/ \E info \in ParticipantInfos : createStudent(info)
    \/ \E info \in ParticipantInfos : createSupervisor(info)
    \/ \E id \in ParticipantIds, amountToStake \in Amounts : stake(id, amountToStake)
    \/ \E studentId \in ParticipantIds, info \in AssignmentInfos,
          r \in 0..(RandomSteps - 1) :
           uploadAssignment(studentId, info, r)
    \/ \E assignmentId \in AssignmentIds, workDone \in Works :
           uploadSolution(assignmentId, workDone)
    \/ \E id \in DOMAIN idToParticipantRecord : verifyWorkDone(id)
    \/ \E id \in DOMAIN idToParticipantRecord : viewTheWorkDone(id)
    \/ \E studentId \in DOMAIN idToParticipantRecord, specialId \in ProgressIds :
           claimFunds(studentId, specialId)
    \/ \E timerId \in DOMAIN timers : dueDateCallback(timerId)

Spec == Init /\ [][Next]_vars

\* ============================================================ properties
\* the due-date timer armed for the assignment of a progress record
TimerOf(r) == timerIdStorage[progressStorage[r].assignmentId]
\* the stake balance of a participant, a missing entry counting as 0
BalanceOf(p) == Payload(Get(participantStakeBalance, p))
\* the due-date timer of the record fired with no verifyWorkDone before it
Forfeited(r) == TimerOf(r) \in firedTimers /\ r \notin verifiedFirst
\* the record binds a registered student to another participant
StudentRecord(r) ==
    /\ ~idToParticipantRecord[progressStorage[r].studentId].isSupervisor
    /\ progressStorage[r].supervisorId # progressStorage[r].studentId
\* the last call was claimFunds(_, r) on a stored progress record
ClaimedOn(r) == last.op = "claimFunds" /\ last.id2 = r
\* the text claimFunds is meant to return for an amount
ExpectedText(a) == <<"Successfully withdrew ">> \o NatToString(a) \o <<" tokens">>
\* the records that match another participant's assignment to supervisor S
\* and for whose assignment a solution has been uploaded
SubmittedTo(S) ==
    {r \in DOMAIN progressStorage :
        /\ progressStorage[r].supervisorId = S
        /\ progressStorage[r].studentId # S
        /\ progressStorage[r].assignmentId \in DOMAIN lastUploaded}
\* the last call was viewTheWorkDone(S)
Viewed(S) == last.op = "viewTheWorkDone" /\ last.id = S

\* C1: claimFunds never succeeds on a progress record whose isFinished flag
\* is false (a failing call traps, so it changes no balance and no flag).
C1_ClaimNeedsFinished ==
    \A r \in DOMAIN progressStorage :
        (StudentRecord(r) /\ ClaimedOn(r) /\ ~progressStorage[r].isFinished)
            => ~last.ok

\* C2: a claimFunds call whose studentId differs from the studentId stored in
\* the progress record fails with the "not supposed to claim" error and
\* changes no balance and no hasStaked flag.
C2_WrongStudentRefused ==
    [][\A r \in DOMAIN progressStorage :
          (last'.op = "claimFunds" /\ last'.id2 = r
             /\ last'.id # progressStorage[r].studentId)
          => /\ ~last'.ok
             /\ last'.err = "NotSupposedToClaim"
             /\ UNCHANGED <<participantStakeBalance, idToParticipantRecord>>]_vars

\* C2 witness: a participant other than the record's student has just been
\* refused while the student holds a positive balance.
C2_Witness ==
    \E r \in DOMAIN progressStorage :
        /\ StudentRecord(r) /\ ClaimedOn(r) /\ ~last.ok
        /\ last.id \in DOMAIN idToParticipantRecord
        /\ last.id # progressStorage[r].studentId
        /\ BalanceOf(progressStorage[r].studentId) > 0

\* C3: at most one successful claimFunds call on a progress record withdraws
\* a positive amount, whatever calls are made in between.
C3_OnePositiveClaim ==
    \A r \in DOMAIN progressStorage : StudentRecord(r) => positiveClaims[r] <= 1

\* C4: the due-date timer of a record that verifyWorkDone verified before the
\* timer fired is no longer pending and never fires.
C4_VerifiedTimerNeverFires ==
    \A r \in verifiedFirst :
        TimerOf(r) \notin firedTimers /\ TimerOf(r) \notin DOMAIN timers

\* C4 witness: a record was verified while its timer was pending, and its
\* student has since withdrawn the whole stake held at upload.
C4_Witness ==
    \E r \in verifiedFirst :
        /\ StudentRecord(r) /\ ClaimedOn(r) /\ last.ok
        /\ Payload(last.amount) = Payload(stakeAtUpload[r])
        /\ Payload(last.amount) >= minStakeAmount

\* C5: once the due-date timer of a record has fired with no verifyWorkDone
\* before it, verifyWorkDone for that record fails, the record never gets
\* isFinished = true, and no claimFunds on it succeeds.
C5_ForfeitedStaysForfeited ==
    \A r \in DOMAIN progressStorage :
        (StudentRecord(r) /\ Forfeited(r)) =>
            /\ ~(last.op = "verifyWorkDone" /\ last.id2 = r /\ last.ok)
            /\ ~progressStorage[r].isFinished
            /\ ~(ClaimedOn(r) /\ last.ok)

\* C6: once the due-date timer of a record has fired with no verifyWorkDone
\* before it, a claimFunds on that record fails or withdraws 0, and never the
\* amount the student held when the record was created.
C6_ForfeitedClaimsNothing ==
    \A r \in DOMAIN progressStorage :
        (StudentRecord(r) /\ Forfeited(r) /\ ClaimedOn(r) /\ last.ok) =>
            /\ Payload(last.amount) = 0
            /\ Payload(stakeAtUpload[r]) > 0
                   => Payload(last.amount) # Payload(stakeAtUpload[r])

\* C7: on the happy path (the student held a >= minStakeAmount when the record
\* was created, the record was verified before its timer fired, nothing has
\* written the student's balance since) claimFunds(student, record) succeeds,
\* returns the text for exactly a, and leaves balance 0 and hasStaked false.
C7_HappyPathReturnsStake ==
    [][\A r \in untouched \cap verifiedFirst :
          LET student == progressStorage[r].studentId
              a == Payload(stakeAtUpload[r])
          IN (StudentRecord(r) /\ a >= minStakeAmount /\ last'.op = "claimFunds" /\ last'.id = student
                /\ last'.id2 = r /\ last' # last)
             => /\ last'.ok
                /\ last'.text = ExpectedText(a)
                /\ BalanceOf(student)' = 0
                /\ ~idToParticipantRecord'[student].hasStaked]_vars

\* C8: after a successful verifyWorkDone the record the supervisor index
\* pointed to is stored with isFinished = true and its timer is not pending.
C8_VerifyStoresFinished ==
    (last.op = "verifyWorkDone" /\ last.ok /\ StudentRecord(last.id2)) =>
        /\ progressStorage[last.id2].isFinished
        /\ TimerOf(last.id2) \notin DOMAIN timers

\* C9: with a non-empty supervisor pool, uploadAssignment by a registered
\* student with hasStaked = true succeeds, picks an index inside the pool and
\* stores the id of a pool member as supervisorId.
C9_NonEmptyPoolMatches ==
    (/\ last.op = "uploadAssignment"
     /\ last.id \in DOMAIN idToParticipantRecord
     /\ ~idToParticipantRecord[last.id].isSupervisor
     /\ idToParticipantRecord[last.id].hasStaked
     /\ Len(supervisorList) >= 1)
    => /\ last.ok
       /\ last.index >= 0 /\ last.index < Len(supervisorList)
       /\ \E i \in 1..Len(supervisorList) :
              supervisorList[i].id = progressStorage[last.id2].supervisorId

C11_RoundTripAnyInterleaving ==
    \A S \in DOMAIN idToParticipantRecord : \A r \in SubmittedTo(S) :
        Viewed(S) =>
            /\ last.ok
            /\ last.text = <<lastUploaded[progressStorage[r].assignmentId]>>

\* C11 amended: viewTheWorkDone(S) returns the text of the latest successful
\* uploadSolution for the assignment whose record the supervisor index holds
\* for S, that is, while no later uploadAssignment has been matched to S.
C11_RoundTripCurrentRecord ==
    \A S \in DOMAIN idToParticipantRecord : \A r \in SubmittedTo(S) :
        (Viewed(S) /\ workUnderSupervison[S] = r) =>
            /\ last.ok
            /\ last.text = <<lastUploaded[progressStorage[r].assignmentId]>>

\* C11 witness: S supervises two records, a solution was uploaded for the
\* current one, and viewTheWorkDone(S) has just returned that text.
C11_Witness ==
    \E S \in DOMAIN idToParticipantRecord : \E r \in SubmittedTo(S) :
        /\ Viewed(S) /\ last.ok /\ workUnderSupervison[S] = r
        /\ \E q \in DOMAIN progressStorage :
               q # r /\ progressStorage[q].supervisorId = S
        /\ last.text = <<"draft">>
        /\ last.text = <<lastUploaded[progressStorage[r].assignmentId]>>

\* ------------------------------------------------------------------ C12
\* C12: money is never created. For every participant, in every reachable
\* state, the amounts withdrawn by the participant's successful claimFunds
\* calls add up to at most the amounts accepted by the participant's
\* successful stake calls: the difference kept in unclaimedStake is never
\* negative.
C12_MoneyNeverCreated ==
    \A p \in DOMAIN idToParticipantRecord : Unclaimed(p) >= 0

\* C12 witness: a participant staked, claimed, staked again and has just
\* claimed a positive amount for the second time; every stake is withdrawn.
C12_Witness ==
    /\ last.op = "claimFunds" /\ last.ok
    /\ Payload(last.amount) > 0
    /\ positiveClaims[last.id2] = 2
    /\ last.id \in DOMAIN unclaimedStake
    /\ unclaimedStake[last.id] = 0

\* ------------------------------------------------------------------ C13
\* the record is stored as finished and its timer is not pending
Verified(r) ==
    progressStorage[r].isFinished /\ TimerOf(r) \notin DOMAIN timers

\* C13: every created assignment is eventually decided, Verified or
\* Forfeited, given that a pending timer eventually fires. Only a pending
\* timer or a call that stores isFinished = true can still decide a record,
\* so the claim needs every record to be verified, or to have had its timer
\* fire, or to have its timer still pending.
C13_UndecidedHasPendingTimer ==
    \A r \in DOMAIN progressStorage :
        StudentRecord(r) =>
            \/ Verified(r)
            \/ TimerOf(r) \in firedTimers
            \/ TimerOf(r) \in DOMAIN timers

\* ------------------------------------------------------------------ C14
\* the progress records matched to supervisor S
SupervisedBy(S) ==
    {q \in DOMAIN progressStorage : progressStorage[q].supervisorId = S}

\* C14: the supervisor index holds the most recent match. In every reachable
\* state, for every supervisor S with an entry, workUnderSupervison[S] is a
\* record of the progress table, that record's supervisorId is S, and no
\* record with supervisorId S was created after it (ids are handed out in
\* increasing order, so the later record has the larger id).
C14_IndexHoldsMostRecent ==
    \A S \in DOMAIN workUnderSupervison :
        /\ workUnderSupervison[S] \in DOMAIN progressStorage
        /\ workUnderSupervison[S] \in SupervisedBy(S)
        /\ \A q \in SupervisedBy(S) : q <= workUnderSupervison[S]

\* C14 witness: two records were matched to S and the index holds the later.
C14_Witness ==
    \E S \in DOMAIN workUnderSupervison :
        /\ Cardinality(SupervisedBy(S)) = 2
        /\ \E q \in SupervisedBy(S) : q < workUnderSupervison[S]
        /\ last.op = "uploadAssignment" /\ last.ok
        /\ last.id2 = workUnderSupervison[S]

\* ------------------------------------------------------------------ C15
\* C15: verifyWorkDone is idempotent. A successful verifyWorkDone(S) that
\* directly follows a successful verifyWorkDone(S) on the same record leaves
\* the record verified (stored with isFinished = true) and leaves every
\* balance, every hasStaked flag and every pending timer as they were.
C15_SecondVerifyIdempotent ==
    [][(/\ last'.op = "verifyWorkDone" /\ last'.ok /\ last'.again
        /\ progressStorage'[last'.id2].supervisorId
               # progressStorage'[last'.id2].studentId)
       => /\ progressStorage'[last'.id2].isFinished
          /\ UNCHANGED <<participantStakeBalance, idToParticipantRecord, timers>>]_vars

\* ------------------------------------------------------------------ C16
\* C16: a successful stake(id, amount) sets the balance of id to exactly
\* amount, whatever it was before, sets hasStaked of id to true, appends the
\* participant to the supervisor pool if and only if it is a supervisor, and
\* changes no other participant, balance, assignment, progress record or
\* timer.
C16_StakeEffect ==
    [][(last'.op = "stake" /\ last'.ok)
       => LET id == last'.id
              amount == last'.amount.Some
          IN
          /\ DOMAIN participantStakeBalance' = DOMAIN participantStakeBalance \cup {id}
          /\ participantStakeBalance'[id] = amount
          /\ \A p \in DOMAIN participantStakeBalance :
                 p # id => participantStakeBalance'[p] = participantStakeBalance[p]
          /\ idToParticipantRecord' =
                 [idToParticipantRecord EXCEPT ![id].hasStaked = TRUE]
          /\ supervisorList' =
                 IF idToParticipantRecord[id].isSupervisor
                 THEN Append(supervisorList, idToParticipantRecord'[id])
                 ELSE supervisorList
          /\ UNCHANGED <<assignmentStorage, progressStorage, workUnderSupervison,
                         uploadedWork, timerIdStorage, timers>>]_vars

\* C16 witness: a supervisor has just staked for the second time and stands
\* twice in the pool, with the balance of the one stake.
C16_Witness ==
    /\ last.op = "stake" /\ last.ok
    /\ Len(supervisorList) = 2
    /\ supervisorList[1].id = last.id /\ supervisorList[2].id = last.id
    /\ participantStakeBalance[last.id] = last.amount.Some

\* ------------------------------------------------------------------ C17
\* C17: in every reachable state, every participant whose hasStaked flag is
\* false has stake balance 0, a missing balance entry counting as 0.
C17_UnstakedHoldsNothing ==
    \A p \in DOMAIN idToParticipantRecord :
        ~idToParticipantRecord[p].hasStaked => BalanceOf(p) = 0

\* C17 witness: a participant who held a positive balance has just claimed
\* it, and now has hasStaked = false and a balance entry of 0.
C17_Witness ==
    /\ last.op = "claimFunds" /\ last.ok
    /\ Payload(last.amount) > 0
    /\ ~idToParticipantRecord[last.id].hasStaked
    /\ last.id \in DOMAIN participantStakeBalance
    /\ participantStakeBalance[last.id] = 0

\* ------------------------------------------------------------------ C18
\* C18: uploadAssignment(studentId, info) fails for want of a stake, changing
\* no table and arming no timer, whenever the participant exists with
\* hasStaked = false; it fails with the id-not-found error, also without any
\* change, when no participant has that id.
C18_UploadRefused ==
    [][(last'.op = "uploadAssignment")
       => /\ (/\ last'.id \in DOMAIN idToParticipantRecord
               /\ ~idToParticipantRecord[last'.id].hasStaked)
              => /\ ~last'.ok
                 /\ last'.err = "NeedToStakeFirst"
                 /\ UNCHANGED canister
          /\ (last'.id \notin DOMAIN idToParticipantRecord)
              => /\ ~last'.ok
                 /\ last'.err = "IdDoesNotExistError"
                 /\ UNCHANGED canister]_vars

\* C18 witness: with a full supervisor pool, uploadAssignment by a registered
\* participant who has claimed the stake back has just been refused.
C18_Witness ==
    /\ last.op = "uploadAssignment" /\ ~last.ok
    /\ last.err = "NeedToStakeFirst"
    /\ last.id \in DOMAIN participantStakeBalance
    /\ ~idToParticipantRecord[last.id].hasStaked
    /\ Len(supervisorList) = MaxPool

\* ------------------------------------------------------------------ C19
\* C19: a student can post an assignment only while holding the minimum
\* stake. In every reachable state in which uploadAssignment has just
\* succeeded for a student, that student's stake balance is at least
\* minStakeAmount.
C19_UploadNeedsMinimumStake ==
    (/\ last.op = "uploadAssignment" /\ last.ok
     /\ ~idToParticipantRecord[last.id].isSupervisor)
        => BalanceOf(last.id) >= minStakeAmount

\* ------------------------------------------------------------------ C20
\* C20: stake(id, amount) fails with the id-not-found error when no
\* participant has that id, and with the stake-too-low error when the
\* participant exists and amount is below minStakeAmount; in both cases the
\* balances, the hasStaked flags and the supervisor pool are unchanged.
C20_StakeRefused ==
    [][(last'.op = "stake")
       => /\ (last'.id \notin DOMAIN idToParticipantRecord)
              => /\ ~last'.ok
                 /\ last'.err = "IdDoesNotExistError"
                 /\ UNCHANGED <<participantStakeBalance, idToParticipantRecord,
                                supervisorList>>
          /\ (/\ last'.id \in DOMAIN idToParticipantRecord
               /\ last'.amount.Some < minStakeAmount)
              => /\ ~last'.ok
                 /\ last'.err = "StakedIsTooLow"
                 /\ UNCHANGED <<participantStakeBalance, idToParticipantRecord,
                                supervisorList>>]_vars

\* C20 witness: a supervisor who stands in the pool with a stake has just
\* been refused a second stake below the minimum, and still holds the first.
C20_Witness ==
    /\ last.op = "stake" /\ ~last.ok
    /\ last.err = "StakedIsTooLow"
    /\ last.amount.Some = minStakeAmount - 1
    /\ idToParticipantRecord[last.id].hasStaked
    /\ BalanceOf(last.id) = minStakeAmount
    /\ Len(supervisorList) = 1
    /\ supervisorList[1].id = last.id

\* ------------------------------------------------------------------ C21
\* C21: in every reachable state, the stake balance of every participant is
\* an integer greater than or equal to 0.
C21_BalanceNeverNegative ==
    \A p \in DOMAIN participantStakeBalance :
        /\ participantStakeBalance[p] \in Int
        /\ participantStakeBalance[p] >= 0

\* C21 witness: the second due-date timer of one student has just fired on
\* the balance the first had already zeroed, while another participant
\* holds a stake.
C21_Witness ==
    /\ last.op = "dueDateCallback"
    /\ Cardinality(firedTimers) = 2
    /\ \A t \in firedTimers : \E r \in DOMAIN progressStorage :
           TimerOf(r) = t /\ progressStorage[r].studentId = last.id2
    /\ participantStakeBalance[last.id2] = 0
    /\ \E p \in DOMAIN participantStakeBalance :
           participantStakeBalance[p] >= minStakeAmount

\* ------------------------------------------------------------------ C22
\* C22: every member of the supervisor pool can be selected by the matcher.
\* In every reachable state with a pool of size n >= 1, for every position
\* i in 0..n-1 some outcome of Math.random() makes uploadAssignment draw
\* index i and read the supervisor at that position.
C22_EveryPositionSelectable ==
    Len(supervisorList) >= 1 =>
        \A i \in 0..(Len(supervisorList) - 1) :
            \E r \in 0..(RandomSteps - 1) :
                /\ randomInt(Len(supervisorList) - 1, 0, r) = i
                /\ ~ReadIdThrows(ArrayGet(supervisorList, i))

\* ------------------------------------------------------------------ C23
\* C23: the firing of a due-date timer changes only the stake balance of the
\* student it was armed for, setting it to 0. It leaves every participant
\* record (the student's hasStaked flag included), every other balance, the
\* supervisor pool, the assignments, the progress records, the supervisor
\* index, the uploaded work and the timer-handle table unchanged, and firing
\* on a balance that is already 0 changes no balance at all.
C23_TimerFireFrame ==
    [][(last'.op = "dueDateCallback")
       => LET student == last'.id2 IN
          /\ student \in DOMAIN participantStakeBalance
          /\ participantStakeBalance' =
                 [participantStakeBalance EXCEPT ![student] = 0]
          /\ participantStakeBalance[student] = 0
                 => UNCHANGED participantStakeBalance
          /\ UNCHANGED <<idToParticipantRecord, supervisorList, assignmentStorage,
                         progressStorage, workUnderSupervison, uploadedWork,
                         timerIdStorage>>]_vars

\* C23 witness: the first timer has just fired for a student who keeps
\* hasStaked = true with balance 0, while another participant's stake and
\* the pool are in place.
C23_Witness ==
    /\ last.op = "dueDateCallback"
    /\ Cardinality(firedTimers) = 1
    /\ idToParticipantRecord[last.id2].hasStaked
    /\ ~idToParticipantRecord[last.id2].isSupervisor
    /\ participantStakeBalance[last.id2] = 0
    /\ Len(supervisorList) = MaxPool
    /\ \E p \in DOMAIN participantStakeBalance :
           p # last.id2 /\ participantStakeBalance[p] = minStakeAmount

\* ------------------------------------------------------------------ C24
\* C24: no participant supervises their own assignment. In every reachable
\* state, the studentId of every progress record is the id of a participant
\* with isSupervisor = false and differs from the record's supervisorId.
C24_NoSelfSupervision ==
    \A r \in DOMAIN progressStorage :
        /\ progressStorage[r].studentId \in DOMAIN idToParticipantRecord
        /\ ~idToParticipantRecord[progressStorage[r].studentId].isSupervisor
        /\ progressStorage[r].studentId # progressStorage[r].supervisorId

\* ------------------------------------------------------------------ C25
\* C25: every undecided assignment stays verifiable. In every reachable
\* state, for every progress record of a student with isFinished = false
\* whose due-date timer is still pending, the supervisor index entry of the
\* record's supervisorId is that record, so that verifyWorkDone by that
\* supervisor reaches the record and its timer.
C25_UndecidedStaysVerifiable ==
    \A r \in DOMAIN progressStorage :
        (/\ StudentRecord(r)
         /\ ~progressStorage[r].isFinished
         /\ TimerOf(r) \in DOMAIN timers)
            => /\ progressStorage[r].supervisorId \in DOMAIN workUnderSupervison
               /\ workUnderSupervison[progressStorage[r].supervisorId] = r

\* ------------------------------------------------------------------ C26
\* the student has an unfinished record whose due-date timer is pending
AtRisk(student) ==
    \E r \in RecordsOf(student) :
        ~progressStorage[r].isFinished /\ TimerOf(r) \in DOMAIN timers

\* C26: a student cannot withdraw the stake while it is still at risk.
\* claimFunds never succeeds with a positive amount for a student who has
\* an assignment whose progress record is unverified and whose due-date
\* timer is still pending, whichever of the student's records it names.
C26_NoClaimWhileAtRisk ==
    \A r \in DOMAIN progressStorage :
        (/\ ClaimedOn(r) /\ last.ok
         /\ StudentRecord(r)
         /\ Payload(last.amount) > 0)
            => ~AtRisk(progressStorage[r].studentId)
====
